---- MODULE Spec2Model ----
(***************************************************************************)
(* Model of src/app.py: the Flask service that probes a media URL for its  *)
(* mp4 renditions (get_video_info, /api/info) and downloads a chosen       *)
(* rendition or its audio (/api/download), gated by the cookies file.      *)
(*                                                                         *)
(* Conventions.                                                            *)
(*  - A Python str is a tuple of one-character strings, so that the code's *)
(*    character operations (replace, split, strip, rfind, "in") are        *)
(*    computed and not assumed.  A character with no TLA+ notation (a      *)
(*    control character, the backtick, a code point outside ASCII) is      *)
(*    written "U+xxxx" and is one element of the tuple; "\f" is the form   *)
(*    feed.                                                                *)
(*  - A Python value whose type varies (JSON fields, catalog fields) is a  *)
(*    tagged record: None, PyInt(n), PyStr(s), PySize(limbs).              *)
(*  - A Python dict is a function whose DOMAIN is the set of keys present. *)
(*  - TLC integers are 32 bits wide and byte counts are not, so a byte     *)
(*    count is kept as its base-1024 digits, least significant first       *)
(*    (PySize(<<0, 2>>) is 2048).  Division by 1024 is exact in binary     *)
(*    floating point for counts below 2^53, which the model stays under.   *)
(*  - The extraction service (yt_dlp) and the cookies file are outside the *)
(*    program: their outcomes are chosen nondeterministically, and the     *)
(*    file may change between any two steps of a handler.                  *)
(*  - Flask serves each request on a thread of its own: the request state  *)
(*    is kept per thread, and the threads share the cookies file only.     *)
(***************************************************************************)
EXTENDS Integers, Sequences, FiniteSets, TLC

VARIABLES cookies, pc, op, req, at_call, reads, outcome, resp, ydl_calls

vars == <<cookies, pc, op, req, at_call, reads, outcome, resp, ydl_calls>>

----------------------------------------------------------------------------
(* Python values *)

None == [t |-> "None"]

PyInt(n) == [t |-> "int", v |-> n]

PyStr(s) == [t |-> "str", v |-> s]

PySize(limbs) == [t |-> "size", v |-> limbs]

\* d.get(key, default)
dict_get(d, key, default) == IF key \in DOMAIN d THEN d[key] ELSE default

\* Python truth value of a JSON field ("not url", "not format_type")
truthy(x) ==
    CASE x.t = "None" -> FALSE
      [] x.t = "int" -> x.v # 0
      [] x.t = "str" -> x.v # <<>>
      [] OTHER -> TRUE

Digit == <<"0", "1", "2", "3", "4", "5", "6", "7", "8", "9">>

\* str(n) for a non-negative int
RECURSIVE DecStr(_)
DecStr(n) ==
    IF n < 10 THEN <<Digit[n + 1]>>
    ELSE Append(DecStr(n \div 10), Digit[(n % 10) + 1])

\* str(x), as the f-string of line 130 renders a JSON value
py_str(x) ==
    CASE x.t = "None" -> <<"N", "o", "n", "e">>
      [] x.t = "int" -> IF x.v < 0 THEN <<"-">> \o DecStr(-x.v) ELSE DecStr(x.v)
      [] OTHER -> x.v

----------------------------------------------------------------------------
(* String literals of app.py *)

\* 'downloads' (app.py line 14)
DOWNLOAD_FOLDER ==
    <<"d", "o", "w", "n", "l", "o", "a", "d", "s">>

\* '<>:"/\\|?*' (app.py line 23)
invalid_chars ==
    <<"<", ">", ":", "\"", "/", "\\", "|", "?", "*">>

\* 'Unknown size' (app.py line 31)
str_unknown_size ==
    <<"U", "n", "k", "n", "o", "w", "n", " ", "s", "i", "z", "e">>

\* "Sign in to confirm you're not a bot" (app.py line 77)
bot_signature ==
    <<"S", "i", "g", "n", " ", "i", "n", " ", "t", "o", " ", "c", "o", "n", "f", "i", "r", "m", " ", "y", "o", "u", "'", "r", "e", " ", "n", "o", "t", " ", "a", " ", "b", "o", "t">>

\* 'Authentication required' (app.py line 79, 116)
str_authentication_required ==
    <<"A", "u", "t", "h", "e", "n", "t", "i", "c", "a", "t", "i", "o", "n", " ", "r", "e", "q", "u", "i", "r", "e", "d">>

\* 'Please provide YouTube cookies in cookies.txt file' (app.py line 80, 117)
str_provide_cookies ==
    <<"P", "l", "e", "a", "s", "e", " ", "p", "r", "o", "v", "i", "d", "e", " ", "Y", "o", "u", "T", "u", "b", "e", " ", "c", "o", "o", "k", "i", "e", "s", " ", "i", "n", " ", "c", "o", "o", "k", "i", "e", "s", ".", "t", "x", "t", " ", "f", "i", "l", "e">>

\* 'An unexpected error occurred' (app.py line 85, 160)
str_unexpected_error ==
    <<"A", "n", " ", "u", "n", "e", "x", "p", "e", "c", "t", "e", "d", " ", "e", "r", "r", "o", "r", " ", "o", "c", "c", "u", "r", "r", "e", "d">>

\* 'URL is required' (app.py line 96)
str_url_required ==
    <<"U", "R", "L", " ", "i", "s", " ", "r", "e", "q", "u", "i", "r", "e", "d">>

\* 'Missing parameters' (app.py line 112)
str_missing_parameters ==
    <<"M", "i", "s", "s", "i", "n", "g", " ", "p", "a", "r", "a", "m", "e", "t", "e", "r", "s">>

\* 'Download completed' (app.py line 151)
str_download_completed ==
    <<"D", "o", "w", "n", "l", "o", "a", "d", " ", "c", "o", "m", "p", "l", "e", "t", "e", "d">>

\* 'video' (app.py line 128)
str_video ==
    <<"v", "i", "d", "e", "o">>

\* 'audio' (app.py line 146)
str_audio ==
    <<"a", "u", "d", "i", "o">>

\* 'mp4' (app.py line 57, 131)
str_mp4 ==
    <<"m", "p", "4">>

\* 'none' (app.py line 58)
str_none ==
    <<"n", "o", "n", "e">>

\* 'mp3' (app.py line 138)
str_mp3 ==
    <<"m", "p", "3">>

\* '.mp3' (app.py line 147)
str_dot_mp3 ==
    <<".", "m", "p", "3">>

\* '192' (app.py line 139)
str_192 ==
    <<"1", "9", "2">>

\* 'FFmpegExtractAudio' (app.py line 137)
str_FFmpegExtractAudio ==
    <<"F", "F", "m", "p", "e", "g", "E", "x", "t", "r", "a", "c", "t", "A", "u", "d", "i", "o">>

\* 'bestaudio/best' (app.py line 135)
str_bestaudio_best ==
    <<"b", "e", "s", "t", "a", "u", "d", "i", "o", "/", "b", "e", "s", "t">>

\* 'bestvideo[height<=' (app.py line 130)
str_bestvideo_prefix ==
    <<"b", "e", "s", "t", "v", "i", "d", "e", "o", "[", "h", "e", "i", "g", "h", "t", "<", "=">>

\* ']+bestaudio/best' (app.py line 130)
str_bestvideo_suffix ==
    <<"]", "+", "b", "e", "s", "t", "a", "u", "d", "i", "o", "/", "b", "e", "s", "t">>



----------------------------------------------------------------------------
(* clean_filename, lines 21-26 *)

Letters ==
    {"a", "b", "c", "d", "e", "f", "g", "h", "i", "j", "k", "l", "m",
     "n", "o", "p", "q", "r", "s", "t", "u", "v", "w", "x", "y", "z",
     "A", "B", "C", "D", "E", "F", "G", "H", "I", "J", "K", "L", "M",
     "N", "O", "P", "Q", "R", "S", "T", "U", "V", "W", "X", "Y", "Z"}

Digits == {"0", "1", "2", "3", "4", "5", "6", "7", "8", "9"}

\* the characters secure_filename keeps: the complement of [^A-Za-z0-9_.-]
SafeChars == Letters \cup Digits \cup {"_", ".", "-"}

\* the ASCII control characters that have no TLA+ notation
AsciiControls ==
    {"U+0000", "U+0001", "U+0002", "U+0003", "U+0004", "U+0005", "U+0006", "U+0007",
     "U+0008", "U+000B", "U+000E", "U+000F", "U+0010", "U+0011", "U+0012", "U+0013",
     "U+0014", "U+0015", "U+0016", "U+0017", "U+0018", "U+0019", "U+001A", "U+001B",
     "U+001C", "U+001D", "U+001E", "U+001F", "U+007F"}

\* The separators of str.split() that are ASCII: space, \t, \n, \x0b, \x0c,
\* \r and \x1c to \x1f.  (The others are gone by then: encode("ascii",
\* "ignore") has dropped them.)
Whitespace ==
    {" ", "\t", "\n", "U+000B", "\f", "\r", "U+001C", "U+001D", "U+001E", "U+001F"}

\* the backtick, the one printable ASCII character with no TLA+ notation
Backtick == "U+0060"

\* what encode("ascii", "ignore") keeps: the code points below U+0080
IsAscii(c) == Len(c) = 1 \/ c \in AsciiControls \/ c = Backtick

\* unicodedata.normalize("NFKD", c) of one character.  ASCII is unchanged.
\* Outside ASCII the model's characters are those of this table (no-break,
\* em and ideographic space; the fullwidth forms of the blocked and the kept
\* punctuation, of A and of 1; e with acute, A with ring, the fi ligature,
\* the ellipsis, one half, the trade mark sign) and five that NFKD leaves
\* alone: U+0085, U+0301, U+030A, U+2044, U+65E5.
nfkd_char(c) ==
    CASE c = "U+00A0" -> <<" ">>
      [] c = "U+2003" -> <<" ">>
      [] c = "U+3000" -> <<" ">>
      [] c = "U+FF0F" -> <<"/">>
      [] c = "U+FF1F" -> <<"?">>
      [] c = "U+FF1A" -> <<":">>
      [] c = "U+FF0A" -> <<"*">>
      [] c = "U+FF1C" -> <<"<">>
      [] c = "U+FF1E" -> <<">">>
      [] c = "U+FF02" -> <<"\"">>
      [] c = "U+FF3C" -> <<"\\">>
      [] c = "U+FF5C" -> <<"|">>
      [] c = "U+FF0E" -> <<".">>
      [] c = "U+FF3F" -> <<"_">>
      [] c = "U+FF0D" -> <<"-">>
      [] c = "U+FF21" -> <<"A">>
      [] c = "U+FF11" -> <<"1">>
      [] c = "U+00E9" -> <<"e", "U+0301">>
      [] c = "U+00C5" -> <<"A", "U+030A">>
      [] c = "U+FB01" -> <<"f", "i">>
      [] c = "U+2026" -> <<".", ".", ".">>
      [] c = "U+00BD" -> <<"1", "U+2044", "2">>
      [] c = "U+2122" -> <<"T", "M">>
      [] OTHER -> <<c>>

RECURSIVE nfkd(_)
nfkd(s) == IF s = <<>> THEN <<>> ELSE nfkd_char(Head(s)) \o nfkd(Tail(s))

\* s.replace(char, '')
str_remove(s, char) == SelectSeq(s, LAMBDA c : c # char)

\* s.replace(old, new) for one-character old and new
str_replace(s, old, new) == [i \in 1..Len(s) |-> IF s[i] = old THEN new ELSE s[i]]

\* '_'.join(s.split()): runs of whitespace become one "_", none at the ends
RECURSIVE split_join(_, _, _)
split_join(s, out, gap) ==
    IF s = <<>> THEN out
    ELSE IF Head(s) \in Whitespace THEN split_join(Tail(s), out, out # <<>>)
    ELSE split_join(Tail(s), IF gap THEN out \o <<"_", Head(s)>> ELSE Append(out, Head(s)), FALSE)

RECURSIVE str_lstrip(_, _)
str_lstrip(s, chars) ==
    IF s # <<>> /\ Head(s) \in chars THEN str_lstrip(Tail(s), chars) ELSE s

RECURSIVE str_rstrip(_, _)
str_rstrip(s, chars) ==
    IF s # <<>> /\ s[Len(s)] \in chars THEN str_rstrip(SubSeq(s, 1, Len(s) - 1), chars) ELSE s

\* s.strip(chars)
str_strip(s, chars) == str_rstrip(str_lstrip(s, chars), chars)

\* werkzeug.utils.secure_filename on a POSIX host (os.sep = "/", no altsep,
\* no Windows device-name rule): normalize to NFKD, drop what is not ASCII,
\* turn path separators into spaces, join the whitespace-separated words
\* with "_", drop every character outside A-Za-z0-9_.- and strip "." and
\* "_" at the ends.
secure_filename(filename) ==
    LET ascii == SelectSeq(nfkd(filename), IsAscii)
        nosep == str_replace(ascii, "/", " ")
        joined == split_join(nosep, <<>>, FALSE)
        kept == SelectSeq(joined, LAMBDA c : c \in SafeChars)
    IN str_strip(kept, {".", "_"})

\* the loop of lines 24-25: remove every invalid character in turn
RECURSIVE strip_invalid(_, _)
strip_invalid(filename, chars) ==
    IF chars = <<>> THEN filename
    ELSE strip_invalid(str_remove(filename, Head(chars)), Tail(chars))

clean_filename(filename) == secure_filename(strip_invalid(filename, invalid_chars))

----------------------------------------------------------------------------
(* get_size_str, lines 28-36 *)

\* the divisor of line 35 and the threshold of line 33
KIB == 1024

units == <<<<"B">>, <<"K", "B">>, <<"M", "B">>, <<"G", "B">>>>

\* digit i (from 1) of a byte count, 0 beyond its length
limb(d, i) == IF i <= Len(d) THEN d[i] ELSE 0

\* "bytes < 1024" after k divisions by 1024: nothing above digit k+1
below_kib(d, k) == \A i \in (k + 2)..Len(d) : d[i] = 0

\* floor of the value after k divisions by 1024
RECURSIVE int_part(_, _)
int_part(d, k) ==
    IF k >= Len(d) THEN 0 ELSE limb(d, k + 1) + KIB * int_part(d, k + 1)

\* The fraction after k divisions is (d[1] + d[2]*1024 + ... ) / 1024^k.
\* frac_times_100(d, k) multiplies it by 100 digit by digit: "carry" is the
\* whole part (the hundredths), "rest" the digits of what is left over.
RECURSIVE frac_times_100(_, _, _, _)
frac_times_100(d, k, i, acc) ==
    IF i > k THEN acc
    ELSE LET t == limb(d, i) * 100 + acc.carry
         IN frac_times_100(d, k, i + 1,
                [carry |-> t \div KIB, rest |-> Append(acc.rest, t % KIB)])

\* the value after k divisions, in hundredths, rounded as "{:.2f}" rounds a
\* float: to nearest, an exact tie to the even neighbour
hundredths(d, k) ==
    LET m == frac_times_100(d, k, 1, [carry |-> 0, rest |-> <<>>])
        floor100 == int_part(d, k) * 100 + m.carry
        top == IF k = 0 THEN 0 ELSE m.rest[k]
        lower == \E i \in 1..(k - 1) : m.rest[i] # 0
        above == top > KIB \div 2 \/ (top = KIB \div 2 /\ lower)
        tie == top = KIB \div 2 /\ ~lower
    IN IF above \/ (tie /\ floor100 % 2 = 1) THEN floor100 + 1 ELSE floor100

\* f"{bytes:.2f}"
fmt_2f(d, k) ==
    LET h == hundredths(d, k)
    IN DecStr(h \div 100) \o <<".", Digit[((h \div 10) % 10) + 1], Digit[(h % 10) + 1]>>

\* the value the loop of lines 32-35 leaves when it runs out of units:
\* k counts the divisions done
RECURSIVE size_loop(_, _)
size_loop(d, k) ==
    IF k = Len(units) THEN fmt_2f(d, k) \o <<" ", "G", "B">>
    ELSE IF below_kib(d, k) THEN fmt_2f(d, k) \o <<" ">> \o units[k + 1]
    ELSE size_loop(d, k + 1)

get_size_str(bytes) ==
    IF bytes = None THEN str_unknown_size ELSE size_loop(bytes.v, 0)

----------------------------------------------------------------------------
(* os.path helpers used by download *)

\* p.rfind(ch) + 1: the last position of ch, 0 when absent
rfind(p, ch) ==
    LET hits == {i \in 1..Len(p) : p[i] = ch}
    IN IF hits = {} THEN 0 ELSE CHOOSE i \in hits : \A j \in hits : j <= i

\* posixpath.splitext: the extension starts at the last dot of the last
\* component, unless only dots precede it there
splitext(p) ==
    LET sepIndex == rfind(p, "/")
        dotIndex == rfind(p, ".")
    IN IF dotIndex > sepIndex /\ \E j \in (sepIndex + 1)..(dotIndex - 1) : p[j] # "."
       THEN <<SubSeq(p, 1, dotIndex - 1), SubSeq(p, dotIndex, Len(p))>>
       ELSE <<p, <<>>>>

\* posixpath.basename
basename(p) == SubSeq(p, rfind(p, "/") + 1, Len(p))

\* posixpath.join(a, b) for a relative b
path_join(a, b) ==
    IF a = <<>> \/ a[Len(a)] = "/" THEN a \o b ELSE a \o <<"/">> \o b

----------------------------------------------------------------------------
(* check_cookies_file, lines 38-40.  The cookies file is a record          *)
(* [exists, size]; it is written by the operator, never by the program.    *)
(* Line 40 reads the file system twice, and the file may change between    *)
(* the two reads.                                                          *)

\* 'cookies.txt' (line 15)
COOKIES_FILE ==
    <<"c", "o", "o", "k", "i", "e", "s", ".", "t", "x", "t">>

FileNotFoundError == [t |-> "FileNotFoundError"]

\* os.path.exists(COOKIES_FILE)
path_exists(file) == file.exists

\* os.path.getsize(COOKIES_FILE): the size, or the exception it raises
path_getsize(file) == IF file.exists THEN PyInt(file.size) ELSE FileNotFoundError

\* a faulty check_cookies_file: the size test of line 40 is forgotten
check_cookies_file_exists_only(exists, size) == IF exists THEN "True" ELSE "False"

\* Line 40 given what its reads returned: "exists and getsize > 0", where
\* getsize is read only if exists is true, and its exception is the
\* function's ("FileNotFoundError").
check_cookies_file(exists, size) ==
    IF ~exists THEN "False"
    ELSE IF size = FileNotFoundError THEN "FileNotFoundError"
    ELSE IF size.v > 0 THEN "True" ELSE "False"

----------------------------------------------------------------------------
(* get_video_info, lines 42-85 *)

\* a faulty test of line 77: the message must start with the needle
str_startswith(haystack, needle) ==
    Len(haystack) >= Len(needle) /\ SubSeq(haystack, 1, Len(needle)) = needle

\* "needle in haystack" for Python strings
str_contains(haystack, needle) ==
    \E i \in 1..(Len(haystack) - Len(needle) + 1) :
        SubSeq(haystack, i, i + Len(needle) - 1) = needle

\* ydl_opts of lines 44-48, given what check_cookies_file returned
info_opts(check) ==
    [quiet |-> TRUE,
     no_warnings |-> FALSE,
     cookiefile |-> IF check = "True" THEN PyStr(COOKIES_FILE) ELSE None]

\* a faulty line 59: the set of heights found is never consulted
already_found_never(height, resolutions_found) == FALSE

\* "height not in resolutions_found" negated, line 59
already_found(height, resolutions_found) == height \in resolutions_found

\* the dict appended at lines 61-65
rendition(f, height) ==
    [height |-> height,
     filesize |-> get_size_str(dict_get(f, "filesize", PySize(<<>>))),
     format_id |-> f.format_id]

\* The loop of lines 55-66 over the raw catalog, in Python's evaluation
\* order: a missing 'ext', 'vcodec' or 'format_id' key raises KeyError and
\* "None > 0" raises TypeError, but only when the conditions before it let
\* the evaluation get that far.
RECURSIVE scan_formats(_, _, _)
scan_formats(fs, formats, resolutions_found) ==
    IF fs = <<>> THEN [raised |-> FALSE, formats |-> formats]
    ELSE LET f == Head(fs)
             height == dict_get(f, "height", PyInt(0))
             skip == scan_formats(Tail(fs), formats, resolutions_found)
             raise == [raised |-> TRUE, formats |-> <<>>]
         IN IF "ext" \notin DOMAIN f THEN raise
            ELSE IF f.ext # str_mp4 THEN skip
            ELSE IF "vcodec" \notin DOMAIN f THEN raise
            ELSE IF f.vcodec = str_none THEN skip
            ELSE IF already_found(height, resolutions_found) THEN skip
            ELSE IF height = None THEN raise
            ELSE IF ~(height.v > 0) THEN skip
            ELSE IF "format_id" \notin DOMAIN f THEN raise
            ELSE scan_formats(Tail(fs), Append(formats, rendition(f, height)),
                              resolutions_found \cup {height})

\* insertion of x into a list sorted by height descending, after its equals
RECURSIVE insert_desc(_, _)
insert_desc(sorted, x) ==
    IF sorted = <<>> THEN <<x>>
    ELSE IF Head(sorted).height.v >= x.height.v
         THEN <<Head(sorted)>> \o insert_desc(Tail(sorted), x)
         ELSE <<x>> \o sorted

RECURSIVE sort_from(_, _)
sort_from(sorted, rest) ==
    IF rest = <<>> THEN sorted ELSE sort_from(insert_desc(sorted, Head(rest)), Tail(rest))

\* a faulty line 68: the sort is left out
formats_unsorted(formats) == formats

\* formats.sort(key=lambda x: x['height'], reverse=True), line 68: stable
formats_sort(formats) == sort_from(<<>>, formats)

\* the error dicts of lines 78-85
authentication_required ==
    [error |-> str_authentication_required, message |-> str_provide_cookies]

unexpected_error == [error |-> str_unexpected_error]

\* except DownloadError, lines 76-82
probe_error(msg) ==
    IF str_contains(msg, bot_signature) THEN authentication_required ELSE [error |-> msg]

\* get_video_info given what check_cookies_file returned at line 47 and what
\* ydl.extract_info(url, download=False) did: returned an info dict, raised
\* DownloadError(msg), or raised anything else.  An exception of
\* check_cookies_file is raised inside the try and ends at line 83.
get_video_info(check, out) ==
    CASE check = "FileNotFoundError" -> unexpected_error
      [] out.kind = "info" ->
            LET scan == scan_formats(dict_get(out.info, "formats", <<>>), <<>>, {})
            IN IF scan.raised THEN unexpected_error
               ELSE [title |-> dict_get(out.info, "title", <<>>),
                     duration |-> dict_get(out.info, "duration", PyInt(0)),
                     formats |-> formats_sort(scan.formats),
                     thumbnail |-> dict_get(out.info, "thumbnail", <<>>)]
      [] out.kind = "DownloadError" -> probe_error(out.msg)
      [] OTHER -> unexpected_error

----------------------------------------------------------------------------
(* download, lines 103-160 *)

\* ydl_opts of lines 120-141; the progress hook only logs and is left out
download_opts(format_type, resolution) ==
    LET base == [cookiefile |-> COOKIES_FILE,
                 outtmpl |-> path_join(DOWNLOAD_FOLDER,
                                 <<"%", "(", "t", "i", "t", "l", "e", ")", "s", ".",
                                   "%", "(", "e", "x", "t", ")", "s">>),
                 quiet |-> FALSE,
                 no_warnings |-> FALSE]
    IN IF format_type = PyStr(str_video)
       THEN base @@ [format |-> str_bestvideo_prefix \o py_str(resolution) \o str_bestvideo_suffix,
                     merge_output_format |-> str_mp4]
       ELSE base @@ [format |-> str_bestaudio_best,
                     postprocessors |-> <<[key |-> str_FFmpegExtractAudio,
                                           preferredcodec |-> str_mp3,
                                           preferredquality |-> str_192]>>]

\* ydl.prepare_filename(info) under the outtmpl of line 122: the template
\* with the extractor's (already file-system-safe) title and extension
prepare_filename(info) == path_join(DOWNLOAD_FOLDER, info.title \o <<".">> \o info.ext)

\* a faulty line 147: ".mp3" is appended to the prepared name
reported_filename_appends(format_type, filename) ==
    IF format_type = PyStr(str_audio)
    THEN basename(filename \o str_dot_mp3)
    ELSE basename(filename)

\* lines 145-152: the filename the response reports
reported_filename(format_type, filename) ==
    IF format_type = PyStr(str_audio)
    THEN basename(splitext(filename)[1] \o str_dot_mp3)
    ELSE basename(filename)

\* the mark of a handler that has not returned yet
proceed == [status |-> 0, body |-> [proceed |-> TRUE]]

\* Lines 106-112: the response the handler returns before it looks at the
\* cookies file, or proceed.  A JSON body that is no object (null) makes
\* data.get raise, which the handler's last except turns into a 500.
download_early(data) ==
    IF data = None THEN [status |-> 500, body |-> unexpected_error]
    ELSE LET url == dict_get(data, "url", None)
             format_type == dict_get(data, "type", None)
         IN IF ~truthy(url) \/ ~truthy(format_type)
            THEN [status |-> 400, body |-> [error |-> str_missing_parameters]]
            ELSE proceed

\* Lines 114-118, given what check_cookies_file returned: its exception ends
\* at line 158
download_gate(check) ==
    CASE check = "FileNotFoundError" -> [status |-> 500, body |-> unexpected_error]
      [] check = "False" -> [status |-> 401, body |-> authentication_required]
      [] OTHER -> proceed

\* the one call the handler makes to the extraction service, line 144
download_call(data) ==
    [url |-> dict_get(data, "url", None),
     download |-> TRUE,
     opts |-> download_opts(dict_get(data, "type", None), dict_get(data, "resolution", None))]

\* lines 143-160, given what ydl.extract_info(url, download=True) did
download_finish(data, out) ==
    CASE out.kind = "info" ->
            [status |-> 200,
             body |-> [success |-> TRUE,
                       message |-> str_download_completed,
                       filename |-> reported_filename(dict_get(data, "type", None),
                                                      prepare_filename(out.info))]]
      [] out.kind = "DownloadError" -> [status |-> 400, body |-> [error |-> out.msg]]
      [] OTHER -> [status |-> 500, body |-> unexpected_error]

----------------------------------------------------------------------------
(* get_info, lines 91-101 *)

\* the one call get_video_info makes to the extraction service, line 51
info_call(data, check) ==
    [url |-> data.url, download |-> FALSE, opts |-> info_opts(check)]

info_early(data) ==
    IF data = None THEN [status |-> 500, body |-> [uncaught |-> "AttributeError"]]
    ELSE IF ~truthy(dict_get(data, "url", None))
    THEN [status |-> 400, body |-> [error |-> str_url_required]]
    ELSE proceed

info_finish(check, out) ==
    LET info == get_video_info(check, out)
    IN IF "error" \in DOMAIN info THEN [status |-> 400, body |-> info]
       ELSE [status |-> 200, body |-> info]

----------------------------------------------------------------------------
(* Inputs: the bounded sets the requests, catalogs and outcomes come from *)

\* longest raw catalog
MaxCatalog == 3

\* longest name given to clean_filename
MaxNameLen == 3

\* most base-1024 digits of a byte count given to get_size_str
MaxLimbs == 5

\* largest target height looked for in a selection expression
MaxTargetHeight == 1080

SeqsUpTo(S, n) == UNION {[1..k -> S] : k \in 0..n}

CookieFiles ==
    {[exists |-> FALSE, size |-> 0], [exists |-> TRUE, size |-> 0], [exists |-> TRUE, size |-> 1]}

\* Raw catalog entries as yt_dlp reports them: video and audio formats,
\* storyboards, entries with a null or missing height, and entries that
\* lack a key the loop reads.
id_18 == <<"1", "8">>

id_22 == <<"2", "2">>

id_136 == <<"1", "3", "6">>

id_137 == <<"1", "3", "7">>

id_140 == <<"1", "4", "0">>

id_248 == <<"2", "4", "8">>

str_avc1 == <<"a", "v", "c", "1">>

str_vp9 == <<"v", "p", "9">>

str_webm == <<"w", "e", "b", "m">>

str_m4a == <<"m", "4", "a">>

Entries ==
    {[ext |-> str_mp4, vcodec |-> str_avc1, height |-> PyInt(720), format_id |-> id_22,
      filesize |-> PySize(<<0, 0, 3>>)],
     [ext |-> str_mp4, vcodec |-> str_avc1, height |-> PyInt(720), format_id |-> id_136,
      filesize |-> None],
     [ext |-> str_mp4, vcodec |-> str_avc1, height |-> PyInt(360), format_id |-> id_18],
     [ext |-> str_mp4, vcodec |-> str_avc1, height |-> PyInt(1080), format_id |-> id_137,
      filesize |-> PySize(<<0, 512, 1023, 1>>)],
     [ext |-> str_webm, vcodec |-> str_vp9, height |-> PyInt(1080), format_id |-> id_248],
     [ext |-> str_m4a, vcodec |-> str_none, height |-> None, format_id |-> id_140],
     [ext |-> str_mp4, vcodec |-> str_none, format_id |-> id_140],
     [ext |-> str_mp4, vcodec |-> str_avc1, height |-> PyInt(0), format_id |-> id_18],
     [ext |-> str_mp4, vcodec |-> str_avc1, format_id |-> id_22],
     [ext |-> str_mp4, vcodec |-> str_avc1, height |-> None, format_id |-> id_136],
     [ext |-> str_mp4, height |-> PyInt(720), format_id |-> id_22],
     [vcodec |-> str_avc1, height |-> PyInt(720), format_id |-> id_22],
     [ext |-> str_mp4, vcodec |-> str_avc1, height |-> PyInt(1080)]}

Catalogs == SeqsUpTo(Entries, MaxCatalog)

title_clip == <<"c", "l", "i", "p">>

title_my_video == <<"M", "y", " ", "V", "i", "d", "e", "o">>

title_dotted == <<"a", ".", "b">>

title_trailing_dot == <<"v", "1", ".">>

ProbeInfos ==
    {[formats |-> c, title |-> title_clip, duration |-> PyInt(212), thumbnail |-> <<"t">>] :
        c \in Catalogs}
    \cup {[title |-> title_my_video]}

msg_error_prefix == <<"E", "R", "R", "O", "R", ":", " ">>

msg_use_cookies == <<".", " ", "U", "s", "e", " ", "-", "-", "c", "o", "o", "k", "i", "e", "s">>

msg_unavailable ==
    <<"V", "i", "d", "e", "o", " ", "u", "n", "a", "v", "a", "i", "l", "a", "b", "l", "e">>

\* DownloadError messages: the anti-bot sentence alone and inside a longer
\* message, near misses of it (cut short, other case, interrupted), and
\* messages that have nothing to do with it
Messages ==
    {pre \o mid \o post :
        pre \in {<<>>, msg_error_prefix},
        mid \in {bot_signature,
                 SubSeq(bot_signature, 1, Len(bot_signature) - 1),
                 <<"s">> \o Tail(bot_signature),
                 SubSeq(bot_signature, 1, 7) \o <<"-">> \o SubSeq(bot_signature, 8, Len(bot_signature)),
                 msg_unavailable,
                 str_authentication_required,
                 <<>>},
        post \in {<<>>, msg_use_cookies}}

Failures == {[kind |-> "DownloadError", msg |-> m] : m \in Messages} \cup {[kind |-> "Exception"]}

ProbeOutcomes == {[kind |-> "info", info |-> i] : i \in ProbeInfos} \cup Failures

FetchInfos ==
    [title : {title_clip, title_my_video, title_dotted, title_trailing_dot},
     ext : {str_mp4, str_webm, str_m4a}]

FetchOutcomes == {[kind |-> "info", info |-> i] : i \in FetchInfos} \cup Failures

\* JSON bodies: an object with any of its keys missing, or null
Urls == {None, PyStr(<<>>), PyStr(<<"u">>)}

FormatTypes == {None, PyStr(<<>>), PyStr(str_video), PyStr(str_audio), PyStr(str_mp3)}

Resolutions == {None, PyInt(0), PyInt(360), PyInt(720), PyStr(<<"7", "2", "0">>)}

\* a dict holding the keys whose value is given; "absent" marks a missing key
Absent == [t |-> "absent"]

make_dict(pairs) ==
    LET keys == {k \in DOMAIN pairs : pairs[k] # Absent}
    IN [k \in keys |-> pairs[k]]

InfoBodies == {make_dict([url |-> u]) : u \in Urls \cup {Absent}} \cup {None}

DownloadBodies ==
    {make_dict([url |-> u, type |-> t, resolution |-> r]) :
        u \in Urls \cup {Absent}, t \in FormatTypes \cup {Absent}, r \in Resolutions \cup {Absent}}
    \cup {None}

NameChars ==
    {"a", "Z", "7", " ", "\f", ".", "_", "-", "<", "\"", "/", "\\", "*", Backtick, "U+FF0F", "U+65E5"}

Names == SeqsUpTo(NameChars, MaxNameLen)

\* the base-1024 digits
SizeDigits == 0..(KIB - 1)

\* None, every count below 1024, and the counts of up to MaxLimbs digits
\* drawn from a few digits that meet the rounding cases of "{:.2f}"
Sizes ==
    {None}
    \cup {PySize(d) : d \in SeqsUpTo(SizeDigits, 1)}
    \cup {PySize(d) : d \in SeqsUpTo({0, 3, 128, 512, 1023}, MaxLimbs)}

\* The inputs of the runs with two requests in flight: fewer of each kind,
\* every kind still there
FewDownloadBodies ==
    {make_dict([url |-> u, type |-> t, resolution |-> r]) :
        u \in {Absent, PyStr(<<>>), PyStr(<<"u">>)},
        t \in {Absent, PyStr(str_video), PyStr(str_audio)},
        r \in {Absent, PyInt(720)}}
    \cup {None}

FewInfoBodies == {make_dict([url |-> u]) : u \in {Absent, PyStr(<<"u">>)}} \cup {None}

FewFailures ==
    {[kind |-> "DownloadError", msg |-> msg_error_prefix \o bot_signature],
     [kind |-> "DownloadError", msg |-> msg_unavailable],
     [kind |-> "Exception"]}

FewProbeOutcomes ==
    {[kind |-> "info",
      info |-> [formats |-> <<[ext |-> str_mp4, vcodec |-> str_avc1, height |-> PyInt(360),
                               format_id |-> id_18]>>,
                title |-> title_clip]]}
    \cup FewFailures

FewFetchOutcomes ==
    {[kind |-> "info", info |-> [title |-> title_clip, ext |-> str_webm]]} \cup FewFailures

----------------------------------------------------------------------------
(* The state machine.  A request is served by a thread; its handler runs   *)
(* in steps, one per read of the outside world: the request body, the two  *)
(* reads of the cookies file at line 40, and the call of the extraction    *)
(* service.  Between any two steps the cookies file may change and the     *)
(* other thread may run.  pc[t] = "done" holds the finished request of     *)
(* thread t until Respond hands it back.                                   *)
(*                                                                         *)
(* reads[t] holds what the reads of line 40 returned so far, in order;     *)
(* at_call[t] is what the cookies file was when a download request came    *)
(* in (kept for the properties only).                                      *)

Threads == {"t1", "t2"}

NoOutcome == [kind |-> "none"]

Init ==
    /\ cookies \in CookieFiles
    /\ pc = [t \in Threads |-> "idle"]
    /\ op = [t \in Threads |-> "none"]
    /\ req = [t \in Threads |-> None]
    /\ at_call = [t \in Threads |-> None]
    /\ reads = [t \in Threads |-> <<>>]
    /\ outcome = [t \in Threads |-> NoOutcome]
    /\ resp = [t \in Threads |-> None]
    /\ ydl_calls = [t \in Threads |-> <<>>]

\* the operator installs, empties or removes cookies.txt, at any time
WriteCookies ==
    /\ cookies' \in CookieFiles \ {cookies}
    /\ UNCHANGED <<pc, op, req, at_call, reads, outcome, resp, ydl_calls>>

\* POST /api/info arrives: lines 93-96
GetInfoBegin(t, bodies) ==
    /\ pc[t] = "idle"
    /\ \E data \in bodies :
        /\ req' = [req EXCEPT ![t] = data]
        /\ IF info_early(data) = proceed
           THEN /\ pc' = [pc EXCEPT ![t] = "exists"]
                /\ UNCHANGED resp
           ELSE /\ pc' = [pc EXCEPT ![t] = "done"]
                /\ resp' = [resp EXCEPT ![t] = info_early(data)]
    /\ op' = [op EXCEPT ![t] = "get_info"]
    /\ UNCHANGED <<cookies, at_call, reads, outcome, ydl_calls>>

\* POST /api/download arrives: lines 106-112
DownloadBegin(t, bodies) ==
    /\ pc[t] = "idle"
    /\ \E data \in bodies :
        /\ req' = [req EXCEPT ![t] = data]
        /\ IF download_early(data) = proceed
           THEN /\ pc' = [pc EXCEPT ![t] = "exists"]
                /\ UNCHANGED resp
           ELSE /\ pc' = [pc EXCEPT ![t] = "done"]
                /\ resp' = [resp EXCEPT ![t] = download_early(data)]
    /\ op' = [op EXCEPT ![t] = "download"]
    /\ at_call' = [at_call EXCEPT ![t] = cookies]
    /\ UNCHANGED <<cookies, reads, outcome, ydl_calls>>

\* what check_cookies_file returns to thread t, from the reads it made
check_of(rs) == check_cookies_file(rs[1], IF Len(rs) > 1 THEN rs[2] ELSE None)

\* The handler of thread t goes on from check_cookies_file (line 47 or 114):
\* it returns, or it calls the extraction service (line 51 or 144) and waits.
Checked(t, check) ==
    LET gate == IF op[t] = "download" THEN download_gate(check)
                ELSE IF check = "FileNotFoundError" THEN info_finish(check, NoOutcome)
                ELSE proceed
    IN IF gate = proceed
       THEN /\ pc' = [pc EXCEPT ![t] = "extract"]
            /\ ydl_calls' = [ydl_calls EXCEPT ![t] =
                    IF op[t] = "download" THEN <<download_call(req[t])>>
                    ELSE <<info_call(req[t], check)>>]
            /\ UNCHANGED resp
       ELSE /\ pc' = [pc EXCEPT ![t] = "done"]
            /\ resp' = [resp EXCEPT ![t] = gate]
            /\ UNCHANGED ydl_calls

\* os.path.exists of line 40; when it is false the check is over
ReadExists(t) ==
    /\ pc[t] = "exists"
    /\ LET e == path_exists(cookies)
       IN /\ reads' = [reads EXCEPT ![t] = <<e>>]
          /\ IF e
             THEN /\ pc' = [pc EXCEPT ![t] = "getsize"]
                  /\ UNCHANGED <<resp, ydl_calls>>
             ELSE Checked(t, check_of(<<e>>))
    /\ UNCHANGED <<cookies, op, req, at_call, outcome>>

\* os.path.getsize of line 40, of the file as it is by then
ReadGetsize(t) ==
    /\ pc[t] = "getsize"
    /\ LET rs == Append(reads[t], path_getsize(cookies))
       IN /\ reads' = [reads EXCEPT ![t] = rs]
          /\ Checked(t, check_of(rs))
    /\ UNCHANGED <<cookies, op, req, at_call, outcome>>

\* ydl.extract_info returns or raises, and the handler builds its response
ExtractReturn(t, probes, fetches) ==
    /\ pc[t] = "extract"
    /\ \E out \in IF op[t] = "download" THEN fetches ELSE probes :
        /\ outcome' = [outcome EXCEPT ![t] = out]
        /\ resp' = [resp EXCEPT ![t] =
                IF op[t] = "download" THEN download_finish(req[t], out)
                ELSE info_finish(check_of(reads[t]), out)]
    /\ pc' = [pc EXCEPT ![t] = "done"]
    /\ UNCHANGED <<cookies, op, req, at_call, reads, ydl_calls>>

\* clean_filename applied to a name
CleanFilename(t) ==
    /\ pc[t] = "idle"
    /\ \E name \in Names :
        /\ req' = [req EXCEPT ![t] = name]
        /\ resp' = [resp EXCEPT ![t] = clean_filename(name)]
    /\ op' = [op EXCEPT ![t] = "clean_filename"]
    /\ pc' = [pc EXCEPT ![t] = "done"]
    /\ UNCHANGED <<cookies, at_call, reads, outcome, ydl_calls>>

\* get_size_str applied to a byte count or None
GetSizeStr(t) ==
    /\ pc[t] = "idle"
    /\ \E bytes \in Sizes :
        /\ req' = [req EXCEPT ![t] = bytes]
        /\ resp' = [resp EXCEPT ![t] = get_size_str(bytes)]
    /\ op' = [op EXCEPT ![t] = "get_size_str"]
    /\ pc' = [pc EXCEPT ![t] = "done"]
    /\ UNCHANGED <<cookies, at_call, reads, outcome, ydl_calls>>

\* the result goes back to the caller; nothing of the request is kept
Respond(t) ==
    /\ pc[t] = "done"
    /\ pc' = [pc EXCEPT ![t] = "idle"]
    /\ op' = [op EXCEPT ![t] = "none"]
    /\ req' = [req EXCEPT ![t] = None]
    /\ at_call' = [at_call EXCEPT ![t] = None]
    /\ reads' = [reads EXCEPT ![t] = <<>>]
    /\ outcome' = [outcome EXCEPT ![t] = NoOutcome]
    /\ resp' = [resp EXCEPT ![t] = None]
    /\ ydl_calls' = [ydl_calls EXCEPT ![t] = <<>>]
    /\ UNCHANGED cookies

\* The service: two requests in flight at a time, the cookies file changing
\* under them.
Next ==
    \/ WriteCookies
    \/ \E t \in Threads :
        \/ GetInfoBegin(t, FewInfoBodies)
        \/ DownloadBegin(t, FewDownloadBodies)
        \/ ReadExists(t)
        \/ ReadGetsize(t)
        \/ ExtractReturn(t, FewProbeOutcomes, FewFetchOutcomes)
        \/ Respond(t)

Spec == Init /\ [][Next]_vars

\* The service with one request in flight at a time (thread t1), fed every
\* request body, catalog and outcome of the input sets; the cookies file
\* still changes between the steps of the handler.  The threads share
\* nothing but that file, so what one request can meet is all here.
NextSequential ==
    \/ WriteCookies
    \/ GetInfoBegin("t1", InfoBodies)
    \/ DownloadBegin("t1", DownloadBodies)
    \/ ReadExists("t1")
    \/ ReadGetsize("t1")
    \/ ExtractReturn("t1", ProbeOutcomes, FetchOutcomes)
    \/ Respond("t1")

SpecSequential == Init /\ [][NextSequential]_vars

\* The two functions that read nothing but their argument, applied to
\* every name of Names and every count of Sizes.
InitFunctions == Init /\ ~cookies.exists

NextFunctions == CleanFilename("t1") \/ GetSizeStr("t1") \/ Respond("t1")

SpecFunctions == InitFunctions /\ [][NextFunctions]_vars

----------------------------------------------------------------------------
(* Properties *)

\* the credential file is absent or has size 0
CredentialMissing(file) == ~file.exists \/ file.size = 0

\* the reads of line 40 found the file absent, or present with size 0
ReadMissing(rs) == rs = <<FALSE>> \/ rs = <<TRUE, PyInt(0)>>

\* the reads of line 40 found the file present with a size above 0
ReadPresent(rs) == Len(rs) = 2 /\ rs[1] /\ rs[2].t = "int" /\ rs[2].v > 0

\* a JSON field that is present and neither null nor the empty string
Given(data, key) ==
    /\ data # None
    /\ key \in DOMAIN data
    /\ data[key] # None
    /\ data[key] # PyStr(<<>>)

\* needle occurs in haystack at some offset
Occurs(needle, haystack) ==
    \E off \in 0..(Len(haystack) - Len(needle)) :
        \A j \in 1..Len(needle) : haystack[off + j] = needle[j]

EndsWith(s, suffix) ==
    Len(s) >= Len(suffix) /\ \A j \in 1..Len(suffix) : s[Len(s) - Len(suffix) + j] = suffix[j]

\* a raw catalog entry that passes the filter of the spec: container mp4,
\* a video codec, a positive integer height
Passes(f) ==
    /\ "ext" \in DOMAIN f /\ f.ext = str_mp4
    /\ "vcodec" \in DOMAIN f /\ f.vcodec # str_none
    /\ "height" \in DOMAIN f /\ f.height.t = "int" /\ f.height.v > 0

\* the raw catalog of the probe that just returned to thread t
RawCatalog(t) == dict_get(outcome[t].info, "formats", <<>>)

\* thread t has finished operation o
Finished(t, o) == pc[t] = "done" /\ op[t] = o

ProbeReturnedMetadata(t) ==
    Finished(t, "get_info") /\ outcome[t].kind = "info" /\ resp[t].status = 200

SucceededDownload(t) == Finished(t, "download") /\ resp[t].status = 200

\* C1 as stated: for every download request that arrives while the
\* credential file is absent or has size 0, whatever its parameters, the
\* extraction service is never invoked and the answer is 401
\* AuthenticationRequired.
C1_AnyRequestGets401 ==
    \A t \in Threads :
        (op[t] = "download" /\ CredentialMissing(at_call[t])) =>
            /\ ydl_calls[t] = <<>>
            /\ pc[t] = "done" =>
                  resp[t] = [status |-> 401, body |-> authentication_required]

\* C1 amended: the extraction service is invoked for a download request only
\* after the request's own check read the credential file as present with a
\* size above 0.  A request that gives url and type and whose check reads
\* the file as absent or of size 0 is answered 401 AuthenticationRequired;
\* a request whose JSON object lacks url or type is answered 400 "Missing
\* parameters" before the file is read; a request whose check finds the file
\* gone between its two reads is answered 500.  None of the three invokes
\* the extraction service.
C1_GatedAfterParameters ==
    \A t \in Threads :
        op[t] = "download" =>
            /\ ydl_calls[t] # <<>> => ReadPresent(reads[t])
            /\ (pc[t] = "done" /\ ReadMissing(reads[t])) =>
                  /\ Given(req[t], "url") /\ Given(req[t], "type")
                  /\ resp[t] = [status |-> 401, body |-> authentication_required]
            /\ (pc[t] = "done" /\ req[t] # None
                  /\ ~(Given(req[t], "url") /\ Given(req[t], "type"))) =>
                  /\ resp[t] = [status |-> 400, body |-> [error |-> str_missing_parameters]]
                  /\ reads[t] = <<>>
            /\ (pc[t] = "done" /\ reads[t] = <<TRUE, FileNotFoundError>>) =>
                  resp[t] = [status |-> 500, body |-> [error |-> str_unexpected_error]]

\* a complete video request arrived at, and checked, an existing but empty
\* cookies file, while the other thread had a request in flight
C1_Witness ==
    \E t \in Threads :
        /\ Finished(t, "download")
        /\ at_call[t] = [exists |-> TRUE, size |-> 0]
        /\ reads[t] = <<TRUE, PyInt(0)>>
        /\ Given(req[t], "url") /\ Given(req[t], "type") /\ Given(req[t], "resolution")
        /\ resp[t].status = 401
        /\ \E u \in Threads \ {t} : pc[u] = "extract"

\* C2: whenever get_video_info returns metadata, the heights of its
\* renditions are positive integers and strictly decreasing along the list
\* (hence pairwise distinct and non-increasing).
C2_HeightsPositiveStrictlyDecreasing ==
    \A t \in Threads :
        ProbeReturnedMetadata(t) =>
            LET fs == resp[t].body.formats
            IN /\ \A i \in 1..Len(fs) : fs[i].height.t = "int" /\ fs[i].height.v > 0
               /\ \A i, j \in 1..Len(fs) : i < j => fs[i].height.v > fs[j].height.v

\* a catalog listing 360 before 720 before 1080 came back as three renditions
C2_Witness ==
    \E t \in Threads :
        /\ ProbeReturnedMetadata(t)
        /\ Len(RawCatalog(t)) = 3
        /\ \A i \in 1..3 : Passes(RawCatalog(t)[i])
        /\ RawCatalog(t)[1].height.v < RawCatalog(t)[2].height.v
        /\ RawCatalog(t)[2].height.v < RawCatalog(t)[3].height.v
        /\ Len(resp[t].body.formats) = 3

\* C3: whenever get_video_info returns metadata, every rendition carries the
\* format_id of the first catalog entry, in catalog order, that passes the
\* filter and has the rendition's height.
C3_FirstSeenWins ==
    \A t \in Threads :
        ProbeReturnedMetadata(t) =>
            \A r \in 1..Len(resp[t].body.formats) :
                LET h == resp[t].body.formats[r].height
                    raw == RawCatalog(t)
                    same == {i \in 1..Len(raw) : Passes(raw[i]) /\ raw[i].height = h}
                IN /\ same # {}
                   /\ \A i \in same :
                        (\A j \in same : i <= j) =>
                            resp[t].body.formats[r].format_id = raw[i].format_id

\* two passing entries of one height and different identifiers were probed
C3_Witness ==
    \E t \in Threads :
        /\ ProbeReturnedMetadata(t)
        /\ \E i, j \in 1..Len(RawCatalog(t)) :
            /\ i < j
            /\ Passes(RawCatalog(t)[i]) /\ Passes(RawCatalog(t)[j])
            /\ RawCatalog(t)[i].height = RawCatalog(t)[j].height
            /\ RawCatalog(t)[i].format_id # RawCatalog(t)[j].format_id
            /\ \E r \in 1..Len(resp[t].body.formats) :
                  resp[t].body.formats[r].format_id = RawCatalog(t)[i].format_id

\* C4: when the probe raises a download error, the result is the structured
\* AuthenticationRequired error if the anti-bot sentence occurs in the
\* message, and otherwise the error carrying the raw message; in the
\* anti-bot case no field of the result is the raw message.
C4_AntiBotRemapped ==
    \A t \in Threads :
        (Finished(t, "get_info") /\ outcome[t].kind = "DownloadError") =>
            IF Occurs(bot_signature, outcome[t].msg)
            THEN /\ resp[t].body = authentication_required
                 /\ \A k \in DOMAIN resp[t].body : resp[t].body[k] # outcome[t].msg
            ELSE resp[t].body = [error |-> outcome[t].msg]

\* the anti-bot sentence arrived inside a longer message
C4_Witness ==
    \E t \in Threads :
        /\ Finished(t, "get_info")
        /\ outcome[t].kind = "DownloadError"
        /\ outcome[t].msg = msg_error_prefix \o bot_signature \o msg_use_cookies
        /\ resp[t].body = authentication_required

\* C5: a successful download of type audio reports a filename that ends in
\* ".mp3" and is the last component of the prepared path with everything
\* from its last dot on replaced by ".mp3".
C5_AudioReportsMp3 ==
    \A t \in Threads :
        (SucceededDownload(t) /\ req[t].type = PyStr(str_audio)) =>
            LET name == basename(prepare_filename(outcome[t].info))
                stem == SubSeq(name, 1, rfind(name, ".") - 1)
            IN /\ EndsWith(resp[t].body.filename, str_dot_mp3)
               /\ resp[t].body.filename = stem \o str_dot_mp3

\* an audio download whose extractor reported webm for a title with a dot
C5_Witness ==
    \E t \in Threads :
        /\ SucceededDownload(t)
        /\ req[t].type = PyStr(str_audio)
        /\ outcome[t].info = [title |-> title_dotted, ext |-> str_webm]
        /\ resp[t].body.filename = title_dotted \o str_dot_mp3

\* C6 as stated: clean_filename never returns the empty string.
C6_NeverEmpty ==
    \A t \in Threads : Finished(t, "clean_filename") => resp[t] # <<>>

\* C7 as stated: for a byte count, get_size_str divides by 1024^k for the
\* smallest k in 0..3 that brings the value under 1024, and by 1024^3 when
\* there is none, and labels the result with unit k.
C7_LargestUnitIsGB ==
    \A t \in Threads :
        (Finished(t, "get_size_str") /\ req[t] # None) =>
            LET fits == {k \in 0..3 : below_kib(req[t].v, k)}
                k == IF fits = {} THEN 3 ELSE CHOOSE m \in fits : \A n \in fits : m <= n
            IN resp[t] = fmt_2f(req[t].v, k) \o <<" ">> \o units[k + 1]

\* C8 as stated: the filename a successful download reports is
\* clean_filename of the produced file's name, so it holds none of the
\* characters of invalid_chars.
C8_ReportedNameSanitized ==
    \A t \in Threads :
        SucceededDownload(t) =>
            LET produced == prepare_filename(outcome[t].info)
                on_disk == IF req[t].type = PyStr(str_audio)
                           THEN splitext(produced)[1] \o str_dot_mp3
                           ELSE produced
                reported == resp[t].body.filename
            IN /\ reported = clean_filename(basename(on_disk))
               /\ \A i \in 1..Len(reported) :
                    \A j \in 1..Len(invalid_chars) : reported[i] # invalid_chars[j]

\* C9 as stated: a video request for which the extraction service is invoked
\* carries a positive integer height in its selection expression, and a
\* video request without resolution that nothing else stops (url given,
\* cookies file read as present and not empty) is answered 400 "Missing
\* parameters" without the extraction service being invoked.
C9_VideoNeedsHeight ==
    \A t \in Threads :
        (op[t] = "download" /\ dict_get(req[t], "type", None) = PyStr(str_video)) =>
            /\ ydl_calls[t] # <<>> =>
                  \E n \in 1..MaxTargetHeight :
                      ydl_calls[t][1].opts.format =
                          str_bestvideo_prefix \o DecStr(n) \o str_bestvideo_suffix
            /\ (/\ pc[t] = "done"
                /\ Given(req[t], "url")
                /\ ReadPresent(reads[t])
                /\ dict_get(req[t], "resolution", None) = None) =>
                  /\ resp[t] = [status |-> 400, body |-> [error |-> str_missing_parameters]]
                  /\ ydl_calls[t] = <<>>

\* C10 as stated: entries of a probed catalog that are not mp4, have no video
\* codec or have no positive integer height are left out, and the probe
\* still returns metadata built from the entries that pass.
C10_UnusableEntriesOmitted ==
    \A t \in Threads :
        (/\ Finished(t, "get_info")
         /\ outcome[t].kind = "info"
         /\ \A i \in 1..Len(RawCatalog(t)) :
                {"ext", "vcodec", "format_id"} \subseteq DOMAIN RawCatalog(t)[i]) =>
            /\ resp[t].status = 200
            /\ "error" \notin DOMAIN resp[t].body
            /\ {resp[t].body.formats[r].height : r \in 1..Len(resp[t].body.formats)}
                  = {RawCatalog(t)[i].height :
                        i \in {n \in 1..Len(RawCatalog(t)) : Passes(RawCatalog(t)[n])}}

====
